---- MODULE Spec2Model ----
(***************************************************************************)
(* Command-to-motor-drive translation and safety timeout of the ESP32-C3   *)
(* car firmware.  Two firmware variants are modelled:                      *)
(*   "WS"  : src/backup/main-2025-10-21.cpp  (WiFi / WebSocket, JSON)      *)
(*   "BLE" : src/backup/ble_motor_control.cpp (BLE, "M1:<n>,M2:<n>")       *)
(* Every handler is a straight-line list of writes (assignments to the     *)
(* globals, digitalWrite, ledcWrite, log lines) in source order.  Spec     *)
(* runs each handler to completion in one step; SpecSteps runs the same    *)
(* lists one write at a time, so that the states between two writes are    *)
(* states of the model.                                                    *)
(***************************************************************************)
EXTENDS Integers, Sequences, FiniteSets, TLC

VARIABLES
    variant,          \* which firmware is flashed: "WS" or "BLE"
    targetA,          \* WS: duty of motor A (throttle axis)
    targetB,          \* WS: duty of motor B (steer axis)
    lastCommandTime,  \* WS: millis() stamp of the last timer refresh
    currentMode,      \* WS: AUTO / MANUAL
    lastLogMillis,    \* WS: static local of loop(), heartbeat stamp
    motor_stby,       \* WS: level of the STBY (enable) pin
    ledc,             \* PWM duty per LEDC channel (WS) or per pin (BLE)
    deviceConnected,  \* BLE: connection flag
    now,              \* millis(): 32-bit millisecond counter
    clients,          \* WS: number of connected WebSocket clients
    sent,             \* lines/messages emitted by the current handler call
    todo,             \* SpecSteps: writes of the running handler still to do
    lastAxisTime,     \* history: millis() of the last parsed axis record
                      \* (WS) or of the last non-empty legacy command (BLE)
    lastCharTime,     \* history: millis() of the last one-character message
    advances          \* number of clock advances so far (bounded)

vars == <<variant, targetA, targetB, lastCommandTime, currentMode,
          lastLogMillis, motor_stby, ledc, deviceConnected, now, clients,
          sent, todo, lastAxisTime, lastCharTime, advances>>

-----------------------------------------------------------------------------
(* Program constants *)

CH_A_FWD == 0
CH_A_REV == 1
CH_B_LEFT == 2
CH_B_RIGHT == 3
MAX_DUTY == 255
COMMAND_TIMEOUT == 300
HEARTBEAT_PERIOD == 5000
AXIS_MAX == 100

M1_IN1_PIN == 3
M1_IN2_PIN == 2
M2_IN1_PIN == 10
M2_IN2_PIN == 7
BLE_DELAY_CONNECTED == 100
BLE_DELAY_IDLE == 500

AUTO == "AUTO"
MANUAL == "MANUAL"
LOW == "LOW"
HIGH == "HIGH"

\* int and unsigned long are 32 bits wide on the ESP32-C3.  The checker's
\* integers are 32-bit too, so an unsigned long is kept as its two 16-bit
\* halves <<hi, lo>> and its arithmetic is done on the halves, modulo 2^32.
W16 == 2^16
INT_MAX == (2^30 - 1) + 2^30
INT_MIN == -INT_MAX - 1

-----------------------------------------------------------------------------
(* Bounds of the model *)

MaxAdvances == 3
MaxClients == 1
MaxBleLoops == 5

\* millis() when setup() returns (WiFi association takes a few seconds)
BootMillis == <<0, 4400>>
TimeSteps == {1, 300}

-----------------------------------------------------------------------------
(* Arithmetic of the build *)

\* C++ integer division by b > 0 truncates toward zero (\div rounds down)
CDivFloor(a, b) == a \div b
CDiv(a, b) == IF a >= 0 \/ a % b = 0 THEN a \div b ELSE (a \div b) + 1

\* the int that the low 32 bits of a * b are, for 0 < b < 2^15
WrapMul(a, b) ==
    LET hi == (a \div W16) % W16
        lo == a % W16
        pl == lo * b
        ph == ((hi * b) + (pl \div W16)) % W16
    IN  ((IF ph >= W16 \div 2 THEN ph - W16 ELSE ph) * W16) + (pl % W16)

\* a * b is an int, for b > 0
MulFits(a, b) == a <= INT_MAX \div b /\ a >= (INT_MIN + b - 1) \div b

\* int * int: signed overflow is undefined behaviour; the outcomes modelled
\* are the wrapped product and the two extremes of int
IntMul(a, b) ==
    IF MulFits(a, b) THEN {a * b} ELSE {WrapMul(a, b), INT_MIN, INT_MAX}

\* Arduino constrain() macro
constrainNone(amt, low, high) == amt
constrain(amt, low, high) ==
    IF amt < low THEN low ELSE IF amt > high THEN high ELSE amt

abs(x) == IF x < 0 THEN -x ELSE x

\* unsigned long: x + d for a small d, x - y, and x > n for n < 2^16
U32Add(x, d) ==
    LET l == x[2] + d IN <<(x[1] + (l \div W16)) % W16, l % W16>>
U32Sub(x, y) ==
    LET l == x[2] - y[2]
    IN  <<(x[1] - y[1] - (IF l < 0 THEN 1 ELSE 0)) % W16, l % W16>>
U32Gt(x, n) == x[1] > 0 \/ x[2] > n

\* millis() - stamp
Elapsed(stamp) == U32Sub(now, stamp)

-----------------------------------------------------------------------------
(* Writes: the vocabulary of handler bodies *)

SetVar(name, v) == [k |-> "set", var |-> name, v |-> v]
Stamp(name) == [k |-> "stamp", var |-> name]
DigitalWrite(level) == [k |-> "digitalWrite", v |-> level]
LedcWrite(ch, duty) == [k |-> "ledcWrite", ch |-> ch, v |-> duty]
Log(text) == [k |-> "log", text |-> text]
Status(throttle, steer) ==
    [k |-> "status", throttle |-> throttle, steer |-> steer]

\* sendLogMessage: one line on Serial and on the WebSocket broadcast
sendLogMessage(text) == <<Log(text)>>

LogLine(text) == [kind |-> "log", text |-> text]

St ==
    [targetA |-> targetA, targetB |-> targetB,
     lastCommandTime |-> lastCommandTime, currentMode |-> currentMode,
     lastLogMillis |-> lastLogMillis, motor_stby |-> motor_stby,
     ledc |-> ledc, deviceConnected |-> deviceConnected, sent |-> sent]

\* effect of one write on the program state s; millis() reads now
ApplyStaleStamp(op, s) ==
    CASE op.k = "set" /\ op.var = "targetA" -> [s EXCEPT !.targetA = op.v]
      [] op.k = "set" /\ op.var = "targetB" -> [s EXCEPT !.targetB = op.v]
      [] op.k = "set" /\ op.var = "currentMode" ->
            [s EXCEPT !.currentMode = op.v]
      [] op.k = "set" /\ op.var = "deviceConnected" ->
            [s EXCEPT !.deviceConnected = op.v]
      [] op.k = "stamp" /\ op.var = "lastCommandTime" ->
            [s EXCEPT !.lastCommandTime = s.lastLogMillis]
      [] op.k = "stamp" /\ op.var = "lastLogMillis" ->
            [s EXCEPT !.lastLogMillis = now]
      [] op.k = "digitalWrite" -> [s EXCEPT !.motor_stby = op.v]
      [] op.k = "ledcWrite" -> [s EXCEPT !.ledc[op.ch] = op.v]
      [] op.k = "log" -> [s EXCEPT !.sent = Append(@, LogLine(op.text))]
      [] op.k = "status" ->
            [s EXCEPT !.sent = Append(@,
                [kind |-> "status", motorA |-> s.targetA,
                 motorB |-> s.targetB, throttle |-> op.throttle,
                 steer |-> op.steer, mode |-> s.currentMode])]
Apply(op, s) ==
    CASE op.k = "set" /\ op.var = "targetA" -> [s EXCEPT !.targetA = op.v]
      [] op.k = "set" /\ op.var = "targetB" -> [s EXCEPT !.targetB = op.v]
      [] op.k = "set" /\ op.var = "currentMode" ->
            [s EXCEPT !.currentMode = op.v]
      [] op.k = "set" /\ op.var = "deviceConnected" ->
            [s EXCEPT !.deviceConnected = op.v]
      [] op.k = "stamp" /\ op.var = "lastCommandTime" ->
            [s EXCEPT !.lastCommandTime = now]
      [] op.k = "stamp" /\ op.var = "lastLogMillis" ->
            [s EXCEPT !.lastLogMillis = now]
      [] op.k = "digitalWrite" -> [s EXCEPT !.motor_stby = op.v]
      [] op.k = "ledcWrite" -> [s EXCEPT !.ledc[op.ch] = op.v]
      [] op.k = "log" -> [s EXCEPT !.sent = Append(@, LogLine(op.text))]
      [] op.k = "status" ->
            [s EXCEPT !.sent = Append(@,
                [kind |-> "status", motorA |-> s.targetA,
                 motorB |-> s.targetB, throttle |-> op.throttle,
                 steer |-> op.steer, mode |-> s.currentMode])]

RECURSIVE Run(_, _)
Run(ops, s) == IF ops = <<>> THEN s ELSE Run(Tail(ops), Apply(Head(ops), s))

Commit(s) ==
    /\ targetA' = s.targetA
    /\ targetB' = s.targetB
    /\ lastCommandTime' = s.lastCommandTime
    /\ currentMode' = s.currentMode
    /\ lastLogMillis' = s.lastLogMillis
    /\ motor_stby' = s.motor_stby
    /\ ledc' = s.ledc
    /\ deviceConnected' = s.deviceConnected
    /\ sent' = s.sent

\* a handler is entered only when no handler is running; stepwise = FALSE
\* runs its writes to completion, stepwise = TRUE leaves them in todo
EnterAnytime(ops, stepwise) ==
    IF stepwise
    THEN /\ todo' = ops
         /\ Commit([St EXCEPT !.sent = <<>>])
    ELSE /\ todo' = <<>>
         /\ Commit(Run(ops, [St EXCEPT !.sent = <<>>]))
Enter(ops, stepwise) ==
    /\ todo = <<>>
    /\ IF stepwise
       THEN /\ todo' = ops
            /\ Commit([St EXCEPT !.sent = <<>>])
       ELSE /\ todo' = <<>>
            /\ Commit(Run(ops, [St EXCEPT !.sent = <<>>]))

\* the running handler performs its next write
Step ==
    /\ todo # <<>>
    /\ Commit(Apply(Head(todo), St))
    /\ todo' = Tail(todo)
    /\ UNCHANGED <<variant, now, clients, lastAxisTime, lastCharTime, advances>>

-----------------------------------------------------------------------------
(* WiFi / WebSocket firmware: main-2025-10-21.cpp *)

emergencyStopNowKeepsStby ==
    <<SetVar("targetB", 0), SetVar("targetA", 0),
      LedcWrite(CH_A_FWD, 0), LedcWrite(CH_A_REV, 0),
      LedcWrite(CH_B_LEFT, 0), LedcWrite(CH_B_RIGHT, 0)>>
    \o sendLogMessage("!!! EMERGENCY STOP Triggered !!!")
emergencyStopNowKeepsChannels ==
    <<SetVar("targetB", 0), SetVar("targetA", 0),
      DigitalWrite(LOW)>>
    \o sendLogMessage("!!! EMERGENCY STOP Triggered !!!")
emergencyStopNow ==
    <<SetVar("targetB", 0), SetVar("targetA", 0),
      DigitalWrite(LOW),
      LedcWrite(CH_A_FWD, 0), LedcWrite(CH_A_REV, 0),
      LedcWrite(CH_B_LEFT, 0), LedcWrite(CH_B_RIGHT, 0)>>
    \o sendLogMessage("!!! EMERGENCY STOP Triggered !!!")

\* the two ledcWrite calls for one motor, in source order
DriveA(speedA) ==
    IF speedA > 0
    THEN <<LedcWrite(CH_A_FWD, speedA), LedcWrite(CH_A_REV, 0)>>
    ELSE IF speedA < 0
    THEN <<LedcWrite(CH_A_FWD, 0), LedcWrite(CH_A_REV, abs(speedA))>>
    ELSE <<LedcWrite(CH_A_FWD, 0), LedcWrite(CH_A_REV, 0)>>

DriveBSwapped(speedB) ==
    IF speedB > 0
    THEN <<LedcWrite(CH_B_LEFT, speedB), LedcWrite(CH_B_RIGHT, 0)>>
    ELSE IF speedB < 0
    THEN <<LedcWrite(CH_B_LEFT, 0), LedcWrite(CH_B_RIGHT, abs(speedB))>>
    ELSE <<LedcWrite(CH_B_RIGHT, 0), LedcWrite(CH_B_LEFT, 0)>>
DriveB(speedB) ==
    IF speedB > 0
    THEN <<LedcWrite(CH_B_RIGHT, speedB), LedcWrite(CH_B_LEFT, 0)>>
    ELSE IF speedB < 0
    THEN <<LedcWrite(CH_B_RIGHT, 0), LedcWrite(CH_B_LEFT, abs(speedB))>>
    ELSE <<LedcWrite(CH_B_RIGHT, 0), LedcWrite(CH_B_LEFT, 0)>>

\* doc["steer"] | 0
Field(doc, name) == IF name \in DOMAIN doc THEN doc[name] ELSE 0

\* scaled duty from the product axis * MAX_DUTY
ScaleDuty(product) == constrain(CDiv(product, 100), -MAX_DUTY, MAX_DUTY)

\* body of "if (!err)" for a parsed document; pT and pS are the values of
\* throttle * MAX_DUTY and steer * MAX_DUTY
AxisOpsAlways(doc, pT, pS) ==
    <<SetVar("targetA", ScaleDuty(pT)), SetVar("targetB", ScaleDuty(pS)),
      DigitalWrite(HIGH)>>
    \o DriveA(ScaleDuty(pT)) \o DriveB(ScaleDuty(pS))
    \o <<Stamp("lastCommandTime")>>
    \o <<Status(Field(doc, "throttle"), Field(doc, "steer"))>>
AxisOpsStampAlways(doc, pT, pS) ==
    (IF currentMode = MANUAL
     THEN <<SetVar("targetA", ScaleDuty(pT)), SetVar("targetB", ScaleDuty(pS)),
            DigitalWrite(HIGH)>>
          \o DriveA(ScaleDuty(pT)) \o DriveB(ScaleDuty(pS))
     ELSE <<>>)
    \o <<Stamp("lastCommandTime")>>
    \o <<Status(Field(doc, "throttle"), Field(doc, "steer"))>>
AxisOpsEnableLast(doc, pT, pS) ==
    (IF currentMode = MANUAL
     THEN <<SetVar("targetA", ScaleDuty(pT)), SetVar("targetB", ScaleDuty(pS))>>
          \o DriveA(ScaleDuty(pT)) \o DriveB(ScaleDuty(pS))
          \o <<DigitalWrite(HIGH), Stamp("lastCommandTime")>>
     ELSE <<>>)
    \o <<Status(Field(doc, "throttle"), Field(doc, "steer"))>>
AxisOpsCooldown(doc, pT, pS) ==
    (IF currentMode = MANUAL
        /\ ~(targetA = 0 /\ targetB = 0 /\ motor_stby = LOW
             /\ ~U32Gt(Elapsed(lastCommandTime), COMMAND_TIMEOUT))
     THEN <<SetVar("targetA", ScaleDuty(pT)), SetVar("targetB", ScaleDuty(pS)),
            DigitalWrite(HIGH)>>
          \o DriveA(ScaleDuty(pT)) \o DriveB(ScaleDuty(pS))
          \o <<Stamp("lastCommandTime")>>
     ELSE <<>>)
    \o <<Status(Field(doc, "throttle"), Field(doc, "steer"))>>
AxisOps(doc, pT, pS) ==
    (IF currentMode = MANUAL
     THEN <<SetVar("targetA", ScaleDuty(pT)), SetVar("targetB", ScaleDuty(pS)),
            DigitalWrite(HIGH)>>
          \o DriveA(ScaleDuty(pT)) \o DriveB(ScaleDuty(pS))
          \o <<Stamp("lastCommandTime")>>
     ELSE <<>>)
    \o <<Status(Field(doc, "throttle"), Field(doc, "steer"))>>

\* switch (cmd) of the single-character branch, then the timer refresh
CharOpsStopManual(cmd) ==
    (CASE cmd = "A" -> <<SetVar("currentMode", AUTO)>>
                        \o sendLogMessage("Mode Switched: AUTO")
       [] cmd = "M" -> <<SetVar("currentMode", MANUAL)>>
                        \o sendLogMessage("Mode Switched: MANUAL")
       [] cmd = "S" -> <<SetVar("currentMode", MANUAL)>> \o emergencyStopNow
       [] OTHER -> <<>>)
    \o <<Stamp("lastCommandTime")>>
CharOpsNoStamp(cmd) ==
    CASE cmd = "A" -> <<SetVar("currentMode", AUTO)>>
                       \o sendLogMessage("Mode Switched: AUTO")
      [] cmd = "M" -> <<SetVar("currentMode", MANUAL)>>
                       \o sendLogMessage("Mode Switched: MANUAL")
      [] cmd = "S" -> emergencyStopNow \o <<Stamp("lastCommandTime")>>
      [] OTHER -> <<>>
CharOps(cmd) ==
    (CASE cmd = "A" -> <<SetVar("currentMode", AUTO)>>
                        \o sendLogMessage("Mode Switched: AUTO")
       [] cmd = "M" -> <<SetVar("currentMode", MANUAL)>>
                        \o sendLogMessage("Mode Switched: MANUAL")
       [] cmd = "S" -> emergencyStopNow
       [] OTHER -> <<>>)
    \o <<Stamp("lastCommandTime")>>

ParseErrorOpsStamp ==
    sendLogMessage("WS Error: JSON parse failed")
    \o <<Stamp("lastCommandTime")>>
\* else branch of "if (!err)"
ParseErrorOps == sendLogMessage("WS Error: JSON parse failed")


TimeoutStopOps ==
    sendLogMessage("Motors stopped due to command timeout.")
    \o <<SetVar("targetB", 0), SetVar("targetA", 0),
         DigitalWrite(LOW),
         LedcWrite(CH_A_FWD, 0), LedcWrite(CH_A_REV, 0),
         LedcWrite(CH_B_LEFT, 0), LedcWrite(CH_B_RIGHT, 0)>>

\* the command-timeout block of loop()
TimeoutOpsGe ==
    IF ~U32Gt(Elapsed(lastCommandTime), COMMAND_TIMEOUT)
       /\ Elapsed(lastCommandTime) # <<0, COMMAND_TIMEOUT>>
    THEN <<>>
    ELSE IF targetA # 0 \/ targetB # 0 THEN TimeoutStopOps ELSE <<>>
TimeoutOpsDeadline ==
    IF LET deadline == U32Add(lastCommandTime, COMMAND_TIMEOUT)
       IN  now[1] > deadline[1]
           \/ (now[1] = deadline[1] /\ now[2] > deadline[2])
    THEN IF targetA # 0 \/ targetB # 0 THEN TimeoutStopOps ELSE <<>>
    ELSE <<>>
TimeoutOpsAlways ==
    IF U32Gt(Elapsed(lastCommandTime), COMMAND_TIMEOUT)
    THEN TimeoutStopOps
    ELSE <<>>
TimeoutOpsAnd ==
    IF U32Gt(Elapsed(lastCommandTime), COMMAND_TIMEOUT)
    THEN IF targetA # 0 /\ targetB # 0 THEN TimeoutStopOps ELSE <<>>
    ELSE <<>>
TimeoutOps ==
    IF U32Gt(Elapsed(lastCommandTime), COMMAND_TIMEOUT)
    THEN IF targetA # 0 \/ targetB # 0 THEN TimeoutStopOps ELSE <<>>
    ELSE <<>>

\* the heartbeat block of loop()
HeartbeatOps ==
    IF U32Gt(Elapsed(lastLogMillis), HEARTBEAT_PERIOD)
    THEN sendLogMessage(IF currentMode = AUTO
                        THEN "Heartbeat: Car system active, Mode=AUTO"
                        ELSE "Heartbeat: Car system active, Mode=MANUAL")
         \o <<Stamp("lastLogMillis")>>
    ELSE <<>>

\* inputs of the WebSocket text handler
Chars == {"A", "M", "S", "X"}
Doc(steer, throttle) == [steer |-> steer, throttle |-> throttle]
AxisDocs ==
    {Doc(0, 0), Doc(50, 50), Doc(-100, 100), Doc(100, 0), Doc(101, -101),
     [throttle |-> 8421505]}

\* case WStype_CONNECTED
WsConnected(stepwise) ==
    /\ variant = "WS"
    /\ clients < MaxClients
    /\ Enter(sendLogMessage("--- WS Client Connected ---"), stepwise)
    /\ clients' = clients + 1
    /\ UNCHANGED <<variant, now, lastAxisTime, lastCharTime, advances>>

\* case WStype_DISCONNECTED
WsDisconnected(stepwise) ==
    /\ variant = "WS"
    /\ clients > 0
    /\ Enter(sendLogMessage("--- WS Client Disconnected ---")
             \o emergencyStopNow, stepwise)
    /\ clients' = clients - 1
    /\ UNCHANGED <<variant, now, lastAxisTime, lastCharTime, advances>>

\* case WStype_TEXT, msg.length() == 1
WsTextChar(cmd, stepwise) ==
    /\ variant = "WS"
    /\ clients > 0
    /\ Enter(CharOps(cmd), stepwise)
    /\ lastCharTime' = now
    /\ UNCHANGED <<variant, now, clients, lastAxisTime, advances>>

\* case WStype_TEXT, a payload that deserializeJson accepts
WsTextAxis(doc, stepwise) ==
    /\ variant = "WS"
    /\ clients > 0
    /\ \E pT \in IntMul(Field(doc, "throttle"), MAX_DUTY),
          pS \in IntMul(Field(doc, "steer"), MAX_DUTY) :
            Enter(AxisOps(doc, pT, pS), stepwise)
    /\ lastAxisTime' = now
    /\ UNCHANGED <<variant, now, clients, lastCharTime, advances>>

\* case WStype_TEXT, a payload that deserializeJson rejects
WsTextBad(stepwise) ==
    /\ variant = "WS"
    /\ clients > 0
    /\ Enter(ParseErrorOps, stepwise)
    /\ UNCHANGED <<variant, now, clients, lastAxisTime, lastCharTime, advances>>

\* one pass of loop() after webSocket.loop() has dispatched its events
Loop(stepwise) ==
    /\ variant = "WS"
    /\ Enter(TimeoutOps \o HeartbeatOps, stepwise)
    /\ UNCHANGED <<variant, now, clients, lastAxisTime, lastCharTime, advances>>

\* time passes between two handler calls
Advance(d) ==
    /\ variant = "WS"
    /\ todo = <<>>
    /\ advances < MaxAdvances
    /\ now' = U32Add(now, d)
    /\ advances' = advances + 1
    /\ UNCHANGED <<variant, targetA, targetB, lastCommandTime, currentMode,
                   lastLogMillis, motor_stby, ledc, deviceConnected, clients,
                   sent, todo, lastAxisTime, lastCharTime>>

-----------------------------------------------------------------------------
(* BLE firmware: ble_motor_control.cpp *)

setMotorSpeed(in1_pin, in2_pin, speed) ==
    LET clamped == constrain(speed, -255, 255)
        absSpeed == abs(clamped)
    IN  IF clamped > 0
        THEN <<LedcWrite(in1_pin, absSpeed), LedcWrite(in2_pin, 0)>>
        ELSE IF clamped < 0
        THEN <<LedcWrite(in1_pin, 0), LedcWrite(in2_pin, absSpeed)>>
        ELSE <<LedcWrite(in1_pin, 0), LedcWrite(in2_pin, 0)>>

\* std::string::find(pat, from): first index >= from (1-based) where pat
\* occurs, 0 for npos
Find(s, pat, from) ==
    LET hits == {i \in from..(Len(s) - Len(pat) + 1) :
                    SubSeq(s, i, i + Len(pat) - 1) = pat}
    IN  IF hits = {} THEN 0 ELSE CHOOSE i \in hits : \A j \in hits : i <= j

\* std::string::substr(pos) and substr(pos, n), pos 1-based
SubstrFrom(s, pos) == SubSeq(s, pos, Len(s))
Substr(s, pos, n) == SubSeq(s, pos, pos + n - 1)

IsDigit(c) == c \in {"0", "1", "2", "3", "4", "5", "6", "7", "8", "9"}
DigitVal(c) ==
    CASE c = "0" -> 0 [] c = "1" -> 1 [] c = "2" -> 2 [] c = "3" -> 3
      [] c = "4" -> 4 [] c = "5" -> 5 [] c = "6" -> 6 [] c = "7" -> 7
      [] c = "8" -> 8 [] c = "9" -> 9

RECURSIVE SkipSpace(_)
SkipSpace(s) ==
    IF s # <<>> /\ Head(s) = " " THEN SkipSpace(Tail(s)) ELSE s

\* minus the value of the leading run of digits of s, accumulated from acc;
\* 1 when it is below INT_MIN (strtol saturates, stoi then throws)
RECURSIVE DigitsValue(_, _)
DigitsValue(s, acc) ==
    IF s # <<>> /\ IsDigit(Head(s))
    THEN IF acc = 1 \/ acc < CDiv(INT_MIN + DigitVal(Head(s)), 10)
         THEN DigitsValue(Tail(s), 1)
         ELSE DigitsValue(Tail(s), (acc * 10) - DigitVal(Head(s)))
    ELSE acc

\* std::stoi: leading blanks, an optional sign, the longest run of digits;
\* no digit (invalid_argument) or a value outside int (out_of_range) throws
stoi(str) ==
    LET s == SkipSpace(str)
        neg == s # <<>> /\ Head(s) = "-"
        signed == s # <<>> /\ Head(s) \in {"-", "+"}
        body == IF signed THEN Tail(s) ELSE s
        minus == DigitsValue(body, 0)
    IN  IF body = <<>> \/ ~IsDigit(Head(body))
        THEN [ok |-> FALSE, v |-> 0]
        ELSE IF minus = 1 \/ (~neg /\ minus = INT_MIN)
        THEN [ok |-> FALSE, v |-> 0]
        ELSE [ok |-> TRUE, v |-> IF neg THEN minus ELSE -minus]

\* the "M1:" block of onWrite: the parsed speed, or 0 with a warning
ParseM1(rxValue) ==
    LET m1_pos == Find(rxValue, <<"M", "1", ":">>, 1)
        end_pos == Find(rxValue, <<",">>, m1_pos)
        m1_str == IF end_pos = 0
                  THEN SubstrFrom(rxValue, m1_pos + 3)
                  ELSE Substr(rxValue, m1_pos + 3, end_pos - (m1_pos + 3))
    IN  IF m1_pos = 0 THEN [ok |-> TRUE, v |-> 0] ELSE stoi(m1_str)

\* the "M2:" block of onWrite
ParseM2(rxValue) ==
    LET m2_pos == Find(rxValue, <<"M", "2", ":">>, 1)
        m2_str == SubstrFrom(rxValue, m2_pos + 3)
    IN  IF m2_pos = 0 THEN [ok |-> TRUE, v |-> 0] ELSE stoi(m2_str)

\* MyCallbacks::onWrite
onWriteOpsStrict(rxValue) ==
    IF Len(rxValue) > 0
    THEN <<Log("Received Value: ")>>
         \o (IF ParseM1(rxValue).ok /\ ParseM2(rxValue).ok
             THEN setMotorSpeed(M1_IN1_PIN, M1_IN2_PIN, ParseM1(rxValue).v)
                  \o setMotorSpeed(M2_IN1_PIN, M2_IN2_PIN, ParseM2(rxValue).v)
             ELSE <<Log("Error parsing speed.")>>
                  \o setMotorSpeed(M1_IN1_PIN, M1_IN2_PIN, 0)
                  \o setMotorSpeed(M2_IN1_PIN, M2_IN2_PIN, 0))
    ELSE <<>>
onWriteOps(rxValue) ==
    IF Len(rxValue) > 0
    THEN <<Log("Received Value: ")>>
         \o (IF ParseM1(rxValue).ok THEN <<>>
             ELSE <<Log("Error parsing M1 speed.")>>)
         \o (IF ParseM2(rxValue).ok THEN <<>>
             ELSE <<Log("Error parsing M2 speed.")>>)
         \o setMotorSpeed(M1_IN1_PIN, M1_IN2_PIN, ParseM1(rxValue).v)
         \o setMotorSpeed(M2_IN1_PIN, M2_IN2_PIN, ParseM2(rxValue).v)
    ELSE <<>>

\* MyServerCallbacks::onConnect
onConnectOps ==
    <<SetVar("deviceConnected", TRUE), Log("BLE Client Connected.")>>
    \o setMotorSpeed(M1_IN1_PIN, M1_IN2_PIN, 0)
    \o setMotorSpeed(M2_IN1_PIN, M2_IN2_PIN, 0)

\* MyServerCallbacks::onDisconnect
onDisconnectOps ==
    <<SetVar("deviceConnected", FALSE), Log("BLE Client Disconnected.")>>
    \o setMotorSpeed(M1_IN1_PIN, M1_IN2_PIN, 0)

\* values written to the characteristic
MSG_BOTH == <<"M", "1", ":", "1", "5", "0", ",", "M", "2", ":", "-", "1", "0", "0">>
MSG_M1_ONLY == <<"M", "1", ":", "1", "5", "0">>
MSG_BAD_M1 == <<"M", "1", ":", "a", "b", "c", ",", "M", "2", ":", "-", "5", "0">>
MSG_OVER == <<"M", "1", ":", "3", "0", "0", ",", "M", "2", ":", "-", "3", "0", "0">>
MSG_REVERSED == <<"M", "1", ":", "-", "2", "0", "0", ",", "M", "2", ":", "2", "0", "0">>
MSG_NO_TOKEN == <<"S">>
MSG_M2_FIRST == <<"M", "2", ":", "-", "5", "0", ",", "M", "1", ":", "9", "0">>
MSG_HUGE == <<"M", "1", ":", "9", "9", "9", "9", "9", "9", "9", "9", "9", "9", "9">>
MSG_EMPTY == <<>>
LegacyMessages ==
    {MSG_BOTH, MSG_M1_ONLY, MSG_BAD_M1, MSG_OVER, MSG_REVERSED, MSG_NO_TOKEN,
     MSG_M2_FIRST, MSG_HUGE, MSG_EMPTY}

BleOnConnect(stepwise) ==
    /\ variant = "BLE"
    /\ ~deviceConnected
    /\ Enter(onConnectOps, stepwise)
    /\ UNCHANGED <<variant, now, clients, lastAxisTime, lastCharTime, advances>>

BleOnDisconnect(stepwise) ==
    /\ variant = "BLE"
    /\ deviceConnected
    /\ Enter(onDisconnectOps, stepwise)
    /\ UNCHANGED <<variant, now, clients, lastAxisTime, lastCharTime, advances>>

BleOnWrite(rxValue, stepwise) ==
    /\ variant = "BLE"
    /\ deviceConnected
    /\ Enter(onWriteOps(rxValue), stepwise)
    /\ lastAxisTime' = IF Len(rxValue) > 0 THEN now ELSE lastAxisTime
    /\ UNCHANGED <<variant, now, clients, lastCharTime, advances>>

\* loop() of the BLE firmware: only a delay
BleLoop ==
    /\ variant = "BLE"
    /\ advances < MaxBleLoops
    /\ now' = U32Add(now, IF deviceConnected THEN BLE_DELAY_CONNECTED
                              ELSE BLE_DELAY_IDLE)
    /\ advances' = advances + 1
    /\ UNCHANGED <<variant, targetA, targetB, lastCommandTime, currentMode,
                   lastLogMillis, motor_stby, ledc, deviceConnected, clients,
                   sent, todo, lastAxisTime, lastCharTime>>

-----------------------------------------------------------------------------
(* Specifications *)

WsChannels == {CH_A_FWD, CH_A_REV, CH_B_LEFT, CH_B_RIGHT}
BlePins == {M1_IN1_PIN, M1_IN2_PIN, M2_IN1_PIN, M2_IN2_PIN}

\* state after setup(), the first loop() pass starting at millis() = start
InitAt(start, heartbeat) ==
    /\ variant \in {"WS", "BLE"}
    /\ targetA = 0
    /\ targetB = 0
    /\ lastCommandTime = <<0, 0>>
    /\ currentMode = MANUAL
    /\ now = start
    /\ lastLogMillis = heartbeat
    /\ motor_stby = LOW
    /\ ledc = [c \in (IF variant = "WS" THEN WsChannels ELSE BlePins) |-> 0]
    /\ deviceConnected = FALSE
    /\ clients = 0
    /\ sent = <<>>
    /\ todo = <<>>
    /\ lastAxisTime = <<0, 0>>
    /\ lastCharTime = <<0, 0>>
    /\ advances = 0

Init == InitAt(BootMillis, <<0, 0>>)

Events(stepwise) ==
    \/ WsConnected(stepwise)
    \/ WsDisconnected(stepwise)
    \/ \E cmd \in Chars : WsTextChar(cmd, stepwise)
    \/ \E doc \in AxisDocs : WsTextAxis(doc, stepwise)
    \/ WsTextBad(stepwise)
    \/ Loop(stepwise)
    \/ \E d \in TimeSteps : Advance(d)
    \/ BleOnConnect(stepwise)
    \/ BleOnDisconnect(stepwise)
    \/ \E rxValue \in LegacyMessages : BleOnWrite(rxValue, stepwise)
    \/ BleLoop

Next == Events(FALSE)

Spec == Init /\ [][Next]_vars

NextSteps == Events(TRUE) \/ Step

SpecSteps == Init /\ [][NextSteps]_vars

-----------------------------------------------------------------------------
(* The axis mapping over the whole joystick range *)

FullAxisDocs ==
    UNION {{Doc(throttle, throttle), Doc(-throttle, throttle)} :
              throttle \in -AXIS_MAX..AXIS_MAX}

NextAxis ==
    \/ WsConnected(FALSE)
    \/ \E doc \in FullAxisDocs : WsTextAxis(doc, FALSE)

SpecAxis == Init /\ [][NextAxis]_vars

-----------------------------------------------------------------------------
(* The BLE firmware alone *)

NextBle ==
    \/ BleOnConnect(FALSE)
    \/ BleOnDisconnect(FALSE)
    \/ \E rxValue \in LegacyMessages : BleOnWrite(rxValue, FALSE)
    \/ BleLoop

InitBle == Init /\ variant = "BLE"

SpecBle == InitBle /\ [][NextBle]_vars

-----------------------------------------------------------------------------
(* The WebSocket firmware shortly before millis() wraps around *)

\* 301 ms before the 32-bit millisecond counter wraps (49.7 days after
\* boot): the car idle, the last command long past, the last heartbeat one
\* second ago
WrapMillis == <<W16 - 1, W16 - 301>>
WrapHeartbeat == <<W16 - 1, W16 - 1301>>
WrapLastCommand == <<W16 - 1, 0>>

InitWrap ==
    /\ variant = "WS"
    /\ targetA = 0
    /\ targetB = 0
    /\ lastCommandTime = WrapLastCommand
    /\ currentMode = MANUAL
    /\ now = WrapMillis
    /\ lastLogMillis = WrapHeartbeat
    /\ motor_stby = LOW
    /\ ledc = [c \in WsChannels |-> 0]
    /\ deviceConnected = FALSE
    /\ clients = 0
    /\ sent = <<>>
    /\ todo = <<>>
    /\ lastAxisTime = WrapLastCommand
    /\ lastCharTime = WrapLastCommand
    /\ advances = 0

NextWrap ==
    \/ WsConnected(FALSE)
    \/ WsDisconnected(FALSE)
    \/ \E cmd \in Chars : WsTextChar(cmd, FALSE)
    \/ \E doc \in AxisDocs : WsTextAxis(doc, FALSE)
    \/ WsTextBad(FALSE)
    \/ Loop(FALSE)
    \/ \E d \in TimeSteps : Advance(d)

SpecWrap == InitWrap /\ [][NextWrap]_vars

-----------------------------------------------------------------------------
(* Properties *)

MotorsOff ==
    /\ targetA = 0
    /\ targetB = 0
    /\ \A c \in DOMAIN ledc : ledc[c] = 0

Stopped == MotorsOff /\ motor_stby = LOW

Running == targetA # 0 \/ targetB # 0

Outputs == <<targetA, targetB, motor_stby, ledc>>

\* the status broadcast of the handler call that ran last, if any
StatusSent == {i \in DOMAIN sent : sent[i].kind = "status"}

\* C1: a tick of the control loop taken while a duty is nonzero stops the
\* motors (duties 0, STBY low, four channels 0) when strictly more than
\* 300 ms have passed since lastCommandTime, and leaves duties, STBY and
\* channels alone when 300 ms or less have passed.
C1_TimeoutStops ==
    [][(Running /\ Loop(FALSE)) =>
        IF U32Gt(Elapsed(lastCommandTime), 300)
        THEN Stopped'
        ELSE UNCHANGED Outputs]_vars

\* the timeout has stopped the motors 301 ms after the last command
C1_Witness ==
    /\ sent # <<>>
    /\ sent[1] = LogLine("Motors stopped due to command timeout.")
    /\ Elapsed(lastCommandTime) = <<0, 301>>
    /\ Stopped

\* C2: when a disconnect handler completes (WebSocket WStype_DISCONNECTED
\* or BLE onDisconnect) both duties and every PWM channel of both motors
\* are 0.
C2_DisconnectStopsAll ==
    [][(WsDisconnected(FALSE) \/ BleOnDisconnect(FALSE)) => MotorsOff']_vars

\* the forward and reverse channel of each motor
MotorPairs ==
    IF variant = "WS"
    THEN {<<CH_A_FWD, CH_A_REV>>, <<CH_B_RIGHT, CH_B_LEFT>>}
    ELSE {<<M1_IN1_PIN, M1_IN2_PIN>>, <<M2_IN1_PIN, M2_IN2_PIN>>}

\* C3: in every state, the states between two channel writes of a handler
\* included, at most one channel of a motor's pair is nonzero.
C3_MutualExclusion ==
    \A pair \in MotorPairs : ledc[pair[1]] = 0 \/ ledc[pair[2]] = 0

\* C4: whenever both duties are zero the STBY line is low.
C4_EnableLowWhenIdle ==
    (variant = "WS" /\ targetA = 0 /\ targetB = 0) => motor_stby = LOW

\* C5: the 'S' command leaves both duties 0, STBY low and the four
\* channels 0, and an 'S' that follows an 'S' changes none of them.
C5_EmergencyStopIdempotent ==
    [][WsTextChar("S", FALSE) =>
        /\ Stopped'
        /\ (sent = <<LogLine("!!! EMERGENCY STOP Triggered !!!")>>
                => UNCHANGED Outputs)]_vars

\* 'S' has just stopped motors that were commanded before
C5_Witness ==
    /\ sent = <<LogLine("!!! EMERGENCY STOP Triggered !!!")>>
    /\ lastAxisTime # <<0, 0>>
    /\ lastCharTime = now
    /\ Stopped

\* C6: in every state each duty is within [-255, 255] and each PWM channel
\* value within [0, 255], in both firmware variants.
C6_DutyRange ==
    /\ targetA \in -255..255
    /\ targetB \in -255..255
    /\ \A c \in DOMAIN ledc : ledc[c] \in 0..255

\* an axis value whose product with 255 overflows has been handled
C6_Witness ==
    /\ StatusSent # {}
    /\ \A i \in StatusSent : sent[i].throttle = 8421505 /\ sent[i].mode = MANUAL
    /\ targetA \in {-255, 255}

\* the duty d that x * 255 / 100 truncates to: |d| = floor(|x| * 255 / 100),
\* with the sign of x
TruncatedDuty(x) ==
    CHOOSE d \in -MAX_DUTY..MAX_DUTY :
        /\ abs(d) * 100 <= abs(x) * 255
        /\ abs(x) * 255 < (abs(d) + 1) * 100
        /\ (x > 0 => d > 0)
        /\ (x < 0 => d < 0)

\* C7: after an axis record with steer and throttle in [-100, 100] is
\* handled in MANUAL mode, dutyA = trunc(throttle * 255 / 100) and
\* dutyB = trunc(steer * 255 / 100), each duty has the sign of its input,
\* and opposite inputs give opposite duties.
C7_AxisMapping ==
    \A i \in StatusSent :
        (/\ sent[i].mode = MANUAL
         /\ sent[i].throttle \in -100..100
         /\ sent[i].steer \in -100..100)
        => /\ targetA = TruncatedDuty(sent[i].throttle)
           /\ targetB = TruncatedDuty(sent[i].steer)
           /\ (sent[i].throttle > 0 <=> targetA > 0)
           /\ (sent[i].throttle < 0 <=> targetA < 0)
           /\ (sent[i].steer > 0 <=> targetB > 0)
           /\ (sent[i].steer < 0 <=> targetB < 0)
           /\ (sent[i].steer = -sent[i].throttle => targetB = -targetA)

\* throttle -1 and steer 1 have been mapped to -2 and 2
C7_Witness ==
    /\ StatusSent # {}
    /\ \A i \in StatusSent :
          sent[i].throttle = -1 /\ sent[i].steer = 1 /\ sent[i].mode = MANUAL
    /\ targetA = -2
    /\ targetB = 2

\* C8: after an axis record is handled in MANUAL mode each duty is the duty
\* of the input clamped to [-100, 100]: above 100 gives 255, below -100
\* gives -255, for every int input.
C8_ClampBeforeMapping ==
    \A i \in StatusSent :
        sent[i].mode = MANUAL
        => /\ targetA = TruncatedDuty(constrain(sent[i].throttle, -100, 100))
           /\ targetB = TruncatedDuty(constrain(sent[i].steer, -100, 100))

\* C9: a handler call that broadcasts a status (the axis branch, the only
\* one that does) and runs in AUTO mode changes no duty, channel or STBY
\* level; the record steer 50, throttle 50 handled in MANUAL mode sets both
\* duties to 127, STBY high and the forward channels to 127.
C9_ModeGating ==
    [][/\ (currentMode = AUTO /\ StatusSent' # {}) => UNCHANGED Outputs
       /\ (currentMode = MANUAL /\ WsTextAxis(Doc(50, 50), FALSE))
            => /\ targetA' = 127
               /\ targetB' = 127
               /\ motor_stby' = HIGH
               /\ ledc' = (CH_A_FWD :> 127) @@ (CH_A_REV :> 0)
                          @@ (CH_B_LEFT :> 0) @@ (CH_B_RIGHT :> 127)]_vars

\* an axis record has been handled in AUTO mode while a motor was running
C9_Witness ==
    /\ StatusSent # {}
    /\ currentMode = AUTO
    /\ \A i \in StatusSent : sent[i].steer = 50 /\ sent[i].motorB = -255
    /\ targetB = -255

\* C10 as stated: a tick taken while a duty is nonzero and more than 300 ms
\* after the last accepted axis record stops the motors, whatever
\* one-character messages came in between.
C10_TimeoutSinceLastAxis ==
    [][(Running /\ U32Gt(Elapsed(lastAxisTime), 300) /\ Loop(FALSE))
        => Stopped']_vars

\* C10 amended: a tick taken while a duty is nonzero, more than 300 ms after
\* the last accepted axis record and more than 300 ms after the last
\* one-character message, stops the motors.
C10_TimeoutSinceLastMessage ==
    [][(/\ Running
        /\ U32Gt(Elapsed(lastAxisTime), 300)
        /\ U32Gt(Elapsed(lastCharTime), 300)
        /\ Loop(FALSE))
        => Stopped']_vars

\* the timeout has stopped the motors although a one-character message
\* arrived after the last axis record
C10_Witness ==
    /\ sent # <<>>
    /\ sent[1] = LogLine("Motors stopped due to command timeout.")
    /\ lastCharTime = lastCommandTime
    /\ lastAxisTime # lastCharTime
    /\ U32Gt(Elapsed(lastAxisTime), 300)
    /\ Stopped

\* C11: every one-character message sets lastCommandTime to millis(),
\* whether the character is 'A', 'M', 'S' or any other; a character other
\* than 'A', 'M', 'S' changes neither the mode, the duties, the four
\* channels nor the STBY line.
C11_SingleCharRefreshesTimer ==
    [][\A cmd \in Chars :
          (variant = "WS" /\ clients > 0 /\ WsTextChar(cmd, FALSE))
          => /\ lastCommandTime' = now
             /\ (cmd \notin {"A", "M", "S"}
                    => UNCHANGED <<currentMode, Outputs>>)]_vars

\* an unrecognised character has refreshed the timer of running motors in
\* AUTO mode, after a time at which the timeout had not been refreshed
C11_Witness ==
    /\ sent = <<>>
    /\ lastCharTime = now
    /\ lastCommandTime = now
    /\ lastAxisTime # now
    /\ currentMode = AUTO
    /\ Running
    /\ motor_stby = HIGH

\* C12: every handler call that parses an axis record (it broadcasts a
\* status, in MANUAL and in AUTO mode) sets lastCommandTime to millis().
C12_AxisRefreshesTimer ==
    [][(variant = "WS" /\ StatusSent' # {}) => lastCommandTime' = now]_vars

\* C13: a payload that deserializeJson rejects changes neither the duties,
\* the four channels, the STBY line, the mode nor lastCommandTime, and
\* emits exactly one log line.
C13_ParseErrorDropped ==
    [][(variant = "WS" /\ clients > 0 /\ WsTextBad(FALSE))
        => /\ UNCHANGED <<Outputs, currentMode, lastCommandTime>>
           /\ Len(sent') = 1
           /\ sent'[1].kind = "log"]_vars

\* a rejected payload has been logged while the motors were running, later
\* than the last timer refresh
C13_Witness ==
    /\ sent = <<LogLine("WS Error: JSON parse failed")>>
    /\ Running
    /\ motor_stby = HIGH
    /\ lastCommandTime # now

\* C14: the mode is MANUAL after setup() and a step changes it only when
\* it is the 'A' command (to AUTO) or the 'M' command (to MANUAL); axis
\* records, rejected payloads, 'S', other characters, connects,
\* disconnects and loop() passes leave it alone.
C14_ModeChangesOnlyByCommand ==
    /\ currentMode = MANUAL
    /\ [][currentMode' # currentMode
            => \/ currentMode' = AUTO /\ WsTextChar("A", FALSE)
               \/ currentMode' = MANUAL /\ WsTextChar("M", FALSE)]_vars

\* 'S' has stopped the motors in AUTO mode and the mode is still AUTO
C14_Witness ==
    /\ currentMode = AUTO
    /\ sent = <<LogLine("!!! EMERGENCY STOP Triggered !!!")>>
    /\ lastAxisTime # <<0, 0>>
    /\ Stopped

\* C15: in every state in which the mode is AUTO both duties are 0, the
\* state right after an 'A' received with motors running included.
C15_AutoIdlesMotors ==
    currentMode = AUTO => (targetA = 0 /\ targetB = 0)

\* signed duty of a BLE motor: forward pin duty minus reverse pin duty
PinDuty(in1_pin, in2_pin) == ledc[in1_pin] - ledc[in2_pin]

\* the speeds each legacy message asks for, <<motor 1, motor 2>>, clamped to
\* [-255, 255]; 0 for a token that is absent or not an int
LegacyExpected(rxValue) ==
    CASE rxValue = MSG_BOTH -> <<150, -100>>
      [] rxValue = MSG_M1_ONLY -> <<150, 0>>
      [] rxValue = MSG_BAD_M1 -> <<0, -50>>
      [] rxValue = MSG_OVER -> <<255, -255>>
      [] rxValue = MSG_REVERSED -> <<-200, 200>>
      [] rxValue = MSG_NO_TOKEN -> <<0, 0>>
      [] rxValue = MSG_M2_FIRST -> <<90, -50>>
      [] rxValue = MSG_HUGE -> <<0, 0>>

\* C16: after onWrite has handled a non-empty legacy message, the duty of
\* each motor is the speed of its own token clamped to [-255, 255], and 0
\* when its token is absent or not an int, whatever the other token is:
\* "M1:150" gives 150 and 0, "M1:abc,M2:-50" gives 0 and -50, a message
\* with neither token gives 0 and 0.
C16_LegacyDuties ==
    [][(variant = "BLE" /\ deviceConnected)
        => \A rxValue \in LegacyMessages \ {MSG_EMPTY} :
              BleOnWrite(rxValue, FALSE)
              => /\ PinDuty(M1_IN1_PIN, M1_IN2_PIN)' = LegacyExpected(rxValue)[1]
                 /\ PinDuty(M2_IN1_PIN, M2_IN2_PIN)' = LegacyExpected(rxValue)[2]
                 /\ \A pair \in MotorPairs :
                       ledc'[pair[1]] = 0 \/ ledc'[pair[2]] = 0]_vars

\* "M1:abc,M2:-50" has been handled while both motors were running
C16_Witness ==
    /\ variant = "BLE"
    /\ sent = <<LogLine("Received Value: "),
                LogLine("Error parsing M1 speed.")>>
    /\ PinDuty(M1_IN1_PIN, M1_IN2_PIN) = 0
    /\ PinDuty(M2_IN1_PIN, M2_IN2_PIN) = -50
    /\ ledc[M2_IN2_PIN] = 50

\* C17: a pass of the BLE control loop that starts with the link connected,
\* a motor running and more than 300 ms after the last legacy command stops
\* both motors.
C17_LegacyTimeout ==
    [][(/\ variant = "BLE"
        /\ deviceConnected
        /\ \E pin \in DOMAIN ledc : ledc[pin] # 0
        /\ U32Gt(Elapsed(lastAxisTime), COMMAND_TIMEOUT)
        /\ BleLoop)
        => MotorsOff']_vars

TimeoutLine == LogLine("Motors stopped due to command timeout.")

HeartbeatLines ==
    {LogLine("Heartbeat: Car system active, Mode=AUTO"),
     LogLine("Heartbeat: Car system active, Mode=MANUAL")}

\* C18: a pass of loop() that starts with both duties 0 and the timeout
\* expired writes neither a duty, a channel nor the STBY line and logs no
\* timeout (the only line the pass can emit is the 5 s heartbeat); a pass
\* logs the timeout at most once, and only when it started with a nonzero
\* duty, so that one expiry is logged by one pass only.
C18_TimeoutIdempotent ==
    [][(variant = "WS" /\ Loop(FALSE))
        => /\ (~Running /\ U32Gt(Elapsed(lastCommandTime), COMMAND_TIMEOUT))
                => /\ UNCHANGED <<Outputs, currentMode, lastCommandTime>>
                   /\ \A i \in DOMAIN sent' : sent'[i] \in HeartbeatLines
           /\ Cardinality({i \in DOMAIN sent' : sent'[i] = TimeoutLine})
                = IF Running /\ U32Gt(Elapsed(lastCommandTime), COMMAND_TIMEOUT)
                  THEN 1 ELSE 0]_vars

\* a pass of loop() has run with the motors already stopped, more than
\* 300 ms after the last command (an axis record), and has emitted the
\* heartbeat only
C18_Witness ==
    /\ sent = <<LogLine("Heartbeat: Car system active, Mode=MANUAL")>>
    /\ lastAxisTime # <<0, 0>>
    /\ lastCommandTime = lastAxisTime
    /\ lastCharTime = <<0, 0>>
    /\ U32Gt(Elapsed(lastCommandTime), COMMAND_TIMEOUT)
    /\ clients > 0
    /\ Stopped

\* channel values that show the duties dA, dB: the forward channel carries
\* a positive duty, the reverse channel the magnitude of a negative one
ChannelsOf(dA, dB) ==
    (CH_A_FWD :> (IF dA > 0 THEN dA ELSE 0))
    @@ (CH_A_REV :> (IF dA < 0 THEN -dA ELSE 0))
    @@ (CH_B_RIGHT :> (IF dB > 0 THEN dB ELSE 0))
    @@ (CH_B_LEFT :> (IF dB < 0 THEN -dB ELSE 0))

\* C19: an axis record with steer and throttle in [-100, 100] and one of
\* them nonzero, handled in MANUAL mode in the stopped state (duties 0,
\* channels 0, STBY low: the state 'S', a disconnect and the timeout
\* leave), sets both duties to the mapped values, STBY high and the
\* channels to those duties in that same handler call.
C19_NoCooldown ==
    [][(/\ variant = "WS"
        /\ currentMode = MANUAL
        /\ Stopped
        /\ StatusSent' # {})
        => \A i \in StatusSent' :
              (/\ sent'[i].throttle \in -AXIS_MAX..AXIS_MAX
               /\ sent'[i].steer \in -AXIS_MAX..AXIS_MAX
               /\ (sent'[i].throttle # 0 \/ sent'[i].steer # 0))
              => /\ targetA' = TruncatedDuty(sent'[i].throttle)
                 /\ targetB' = TruncatedDuty(sent'[i].steer)
                 /\ Running'
                 /\ motor_stby' = HIGH
                 /\ ledc' = ChannelsOf(targetA', targetB')]_vars

\* an axis record has set both motors to full duty in the millisecond in
\* which a one-character message was received, some time after boot
C19_Witness ==
    /\ StatusSent # {}
    /\ \A i \in StatusSent :
          sent[i].throttle = 100 /\ sent[i].steer = -100
          /\ sent[i].motorA = 255 /\ sent[i].motorB = -255
    /\ currentMode = MANUAL
    /\ motor_stby = HIGH
    /\ lastCharTime = now
    /\ lastCommandTime = now
    /\ advances > 0

\* C20: after an axis record is handled in MANUAL mode the channels of each
\* motor show its duty d: forward = d and reverse = 0 for d > 0, forward =
\* 0 and reverse = -d for d < 0, both 0 for d = 0; steer 100 and throttle 0
\* give dutyB = 255, dutyA = 0, STBY high, forward channel of B (CH_B_RIGHT)
\* 255 and reverse channel of B (CH_B_LEFT) 0.
C20_ChannelsReflectDuty ==
    \A i \in StatusSent :
        sent[i].mode = MANUAL
        => /\ ledc = ChannelsOf(targetA, targetB)
           /\ (sent[i].steer = 100 /\ sent[i].throttle = 0)
                => /\ targetB = 255
                   /\ targetA = 0
                   /\ motor_stby = HIGH
                   /\ ledc[CH_B_RIGHT] = 255
                   /\ ledc[CH_B_LEFT] = 0

\* steer 100, throttle 0 has been handled in MANUAL mode
C20_Witness ==
    /\ StatusSent # {}
    /\ \A i \in StatusSent :
          sent[i].steer = 100 /\ sent[i].throttle = 0
          /\ sent[i].mode = MANUAL /\ sent[i].motorB = 255
    /\ ledc[CH_B_RIGHT] = 255
    /\ ledc[CH_B_LEFT] = 0
    /\ motor_stby = HIGH

\* C21: in the WebSocket firmware, watched write by write, a channel goes
\* from zero to a nonzero value only while the STBY line is high: the axis
\* handler raises STBY before its first ledcWrite.
C21_EnableBeforePwm ==
    [][variant = "WS"
        => \A ch \in DOMAIN ledc :
              (ledc[ch] = 0 /\ ledc'[ch] # 0) => motor_stby = HIGH]_vars

\* the axis handler has raised STBY from the stopped state and its next
\* write is the first nonzero channel value
C21_Witness ==
    /\ variant = "WS"
    /\ todo # <<>>
    /\ Head(todo).k = "ledcWrite"
    /\ Head(todo).v # 0
    /\ motor_stby = HIGH
    /\ \A ch \in DOMAIN ledc : ledc[ch] = 0

\* order of two millis() values read as unsigned 32-bit numbers
U32Le(x, y) == x[1] < y[1] \/ (x[1] = y[1] /\ x[2] <= y[2])

\* C22 as stated: no step makes lastCommandTime smaller.
C22_TimestampMonotonic ==
    [][U32Le(lastCommandTime, lastCommandTime')]_vars

\* C22 amended: a step changes lastCommandTime only to the current
\* millis(), and makes it no smaller as long as millis() has not wrapped
\* around since the last refresh (lastCommandTime <= millis()).
C22_TimestampFollowsClock ==
    [][/\ lastCommandTime' \in {lastCommandTime, now}
       /\ U32Le(lastCommandTime, now)
            => U32Le(lastCommandTime, lastCommandTime')]_vars

\* the timer has been refreshed after the counter wrapped, by a command
\* that follows one received before the wrap
C22_Witness ==
    /\ lastCommandTime = now
    /\ now[1] = 0
    /\ lastAxisTime = now
    /\ lastCharTime[1] = W16 - 1
    /\ lastCharTime # WrapLastCommand

\* position of a millis() value on the time line around the wraparound, in
\* ms from 2^32 - 2^16: values read before the wrap have the high half
\* 2^16 - 1, values read after it the high half 0
Unwrapped(t) == IF t[1] = 0 THEN W16 + t[2] ELSE t[2]

\* C26: around the wraparound of millis(), a pass of loop() taken with a
\* nonzero duty stops the motors exactly when the time that has really
\* passed since the last timer refresh exceeds 300 ms, and leaves duties,
\* channels and STBY alone otherwise, also when the refresh was before the
\* wrap and the pass is after it.
C26_TimeoutAcrossWrap ==
    [][(Running /\ Loop(FALSE))
        => IF Unwrapped(now) - Unwrapped(lastCommandTime) > COMMAND_TIMEOUT
           THEN Stopped'
           ELSE UNCHANGED Outputs]_vars

\* the timeout has stopped the motors after the wrap, 301 ms after a
\* command received before the wrap
C26_Witness ==
    /\ sent # <<>>
    /\ sent[1] = LogLine("Motors stopped due to command timeout.")
    /\ now[1] = 0
    /\ lastCommandTime[1] = W16 - 1
    /\ Unwrapped(now) - Unwrapped(lastCommandTime) = 301
    /\ Stopped

\* C24: in the WebSocket firmware, after every completed handler call or
\* loop() pass, the four channels carry the values derived from targetA
\* and targetB (forward max(d, 0), reverse max(-d, 0)), and STBY is high
\* whenever a duty is nonzero.
C24_OutputsFollowTargets ==
    variant = "WS"
    => /\ ledc = ChannelsOf(targetA, targetB)
       /\ (Running => motor_stby = HIGH)

\* motor A runs forward and motor B in reverse after a completed handler
C24_Witness ==
    /\ variant = "WS"
    /\ targetA = 255
    /\ targetB = -255
    /\ ledc[CH_A_FWD] = 255
    /\ ledc[CH_B_LEFT] = 255
    /\ motor_stby = HIGH

CommandsComplete ==
    /\ ledc = ChannelsOf(targetA, targetB)
    /\ (Running => motor_stby = HIGH)
    /\ (currentMode = MANUAL /\ ~U32Le(lastAxisTime, lastCharTime))
            => lastCommandTime = lastAxisTime

====
